---- MODULE Spec2Model ----
(***************************************************************************)
(* Model of src/src/cron.py: the cron field classifier (detect_operation), *)
(* validator (validate_field), expander (generate_values) and the          *)
(* orchestrator (process_cron_expression).                                 *)
(*                                                                         *)
(* Text is a sequence of one-character strings.  The pure functions are    *)
(* operators; a call that raises is a record whose error field is set.     *)
(***************************************************************************)
EXTENDS Integers, Sequences, FiniteSets, TLC

(* ------------------------------------------------------------------ *)
(* Bounds of the model                                                  *)
(* ------------------------------------------------------------------ *)

\* longest field text drawn in the single-field specification
MaxLen == 4

\* largest number of tokens of an expression in the expression specification
MaxTokens == 6

(* ------------------------------------------------------------------ *)
(* Constant tables                                                      *)
(* ------------------------------------------------------------------ *)

CRON_OPERATIONS ==
    {"all_items", "wild_card_with_step_value", "range", "list", "single_value"}

CRON_TIME_PART == {"minute", "hour", "day_of_month", "month", "day_of_week"}

MIN_VALUE ==
    [p \in CRON_TIME_PART |->
        CASE p = "minute" -> 0
          [] p = "hour" -> 0
          [] p = "day_of_month" -> 1
          [] p = "month" -> 1
          [] p = "day_of_week" -> 1]

MAX_VALUE ==
    [p \in CRON_TIME_PART |->
        CASE p = "minute" -> 59
          [] p = "hour" -> 23
          [] p = "day_of_month" -> 31
          [] p = "month" -> 12
          [] p = "day_of_week" -> 7]

CRON_PART ==
    [k \in 0..4 |->
        CASE k = 0 -> "minute"
          [] k = 1 -> "hour"
          [] k = 2 -> "day_of_month"
          [] k = 3 -> "month"
          [] k = 4 -> "day_of_week"]

\* the number of fields process_cron_expression requires
FIELD_COUNT == 5

\* the column width of the f-string format spec {part:<14}
NAME_WIDTH == 14

(* ------------------------------------------------------------------ *)
(* Python's str and int primitives                                      *)
(* ------------------------------------------------------------------ *)

Digits == {"0", "1", "2", "3", "4", "5", "6", "7", "8", "9"}

\* the characters str.split() and int() treat as whitespace
Whitespace == {" ", "\t", "\n"}

DigitVal(c) ==
    CASE c = "0" -> 0 [] c = "1" -> 1 [] c = "2" -> 2 [] c = "3" -> 3
      [] c = "4" -> 4 [] c = "5" -> 5 [] c = "6" -> 6 [] c = "7" -> 7
      [] c = "8" -> 8 [] c = "9" -> 9

DigitChar(d) ==
    CASE d = 0 -> "0" [] d = 1 -> "1" [] d = 2 -> "2" [] d = 3 -> "3"
      [] d = 4 -> "4" [] d = 5 -> "5" [] d = 6 -> "6" [] d = 7 -> "7"
      [] d = 8 -> "8" [] d = 9 -> "9"

\* s[k:] with k >= 0 (0-based slice start)
SliceFrom(s, k) == SubSeq(s, k + 1, Len(s))

\* s.startswith(p)
StartsWith(s, p) == Len(s) >= Len(p) /\ SubSeq(s, 1, Len(p)) = p

\* s.endswith(p)
EndsWith(s, p) == Len(s) >= Len(p) /\ SubSeq(s, Len(s) - Len(p) + 1, Len(s)) = p

\* c in s, for a one-character c
Contains(s, c) == \E k \in 1..Len(s) : s[k] = c

\* s.isdigit(): non-empty and every character a digit
IsDigit(s) == Len(s) > 0 /\ \A k \in 1..Len(s) : s[k] \in Digits

\* s.split(sep) for a one-character separator: every separator cuts, so
\* empty tokens are kept and the result is never empty
RECURSIVE SplitOn(_, _)
SplitOn(s, sep) ==
    IF ~Contains(s, sep)
    THEN <<s>>
    ELSE LET k == CHOOSE j \in 1..Len(s) :
                      s[j] = sep /\ \A h \in 1..(j - 1) : s[h] # sep
         IN  <<SubSeq(s, 1, k - 1)>> \o SplitOn(SubSeq(s, k + 1, Len(s)), sep)

\* s.split(): runs of whitespace separate, leading and trailing whitespace
\* is dropped, no empty token is produced
RECURSIVE SplitWhitespace(_)
SplitWhitespace(s) ==
    IF Len(s) = 0 THEN <<>>
    ELSE IF s[1] \in Whitespace THEN SplitWhitespace(Tail(s))
    ELSE LET ends == {j \in 1..Len(s) : s[j] \in Whitespace}
             k == IF ends = {} THEN Len(s) + 1
                  ELSE CHOOSE j \in ends : \A h \in ends : j <= h
         IN  <<SubSeq(s, 1, k - 1)>> \o SplitWhitespace(SubSeq(s, k, Len(s)))

\* s.strip() as int() applies it
RECURSIVE Strip(_)
Strip(s) ==
    IF Len(s) = 0 THEN s
    ELSE IF s[1] \in Whitespace THEN Strip(Tail(s))
    ELSE IF s[Len(s)] \in Whitespace THEN Strip(SubSeq(s, 1, Len(s) - 1))
    ELSE s

\* the value of a string of digits and underscores (underscores skipped)
RECURSIVE DigitsValue(_)
DigitsValue(s) ==
    IF Len(s) = 0 THEN 0
    ELSE IF s[Len(s)] = "_" THEN DigitsValue(SubSeq(s, 1, Len(s) - 1))
    ELSE 10 * DigitsValue(SubSeq(s, 1, Len(s) - 1)) + DigitVal(s[Len(s)])

\* int(s): surrounding whitespace, an optional sign, then decimal digits
\* with single underscores allowed between digits.  ok = FALSE stands for
\* ValueError("invalid literal for int() with base 10")
ParseInt(s) ==
    LET t == Strip(s)
        signed == Len(t) > 0 /\ t[1] \in {"+", "-"}
        body == IF signed THEN Tail(t) ELSE t
        wellFormed ==
            /\ Len(body) > 0
            /\ \A k \in 1..Len(body) : body[k] \in Digits \cup {"_"}
            /\ body[1] \in Digits
            /\ body[Len(body)] \in Digits
            /\ \A k \in 1..Len(body) :
                   body[k] = "_" => body[k - 1] \in Digits /\ body[k + 1] \in Digits
    IN  IF ~wellFormed THEN [ok |-> FALSE, n |-> 0]
        ELSE [ok |-> TRUE,
              n |-> IF signed /\ t[1] = "-" THEN 0 - DigitsValue(body)
                    ELSE DigitsValue(body)]

\* str(n) for an integer n
RECURSIVE NatStr(_)
NatStr(n) ==
    IF n < 10 THEN <<DigitChar(n)>>
    ELSE NatStr(n \div 10) \o <<DigitChar(n % 10)>>

Str(n) == IF n < 0 THEN <<"-">> \o NatStr(0 - n) ELSE NatStr(n)

\* sep.join(parts) for a sequence of texts
RECURSIVE Join(_, _)
Join(parts, sep) ==
    IF Len(parts) = 0 THEN <<>>
    ELSE IF Len(parts) = 1 THEN parts[1]
    ELSE parts[1] \o sep \o Join(Tail(parts), sep)

\* list(range(start, stop, step)); step = 0 raises ValueError
RangeList(start, stop, step) ==
    IF step > 0
    THEN LET n == IF stop <= start THEN 0 ELSE (stop - start + step - 1) \div step
         IN  [k \in 1..n |-> start + (k - 1) * step]
    ELSE LET n == IF stop >= start THEN 0
                  ELSE (start - stop - step - 1) \div (0 - step)
         IN  [k \in 1..n |-> start + (k - 1) * step]

(* ------------------------------------------------------------------ *)
(* Errors: every failure is a ValueError; msg is the fixed part of its  *)
(* message and part, operation, text are what the message interpolates  *)
(* ------------------------------------------------------------------ *)

NoError == [msg |-> "", part |-> "", operation |-> "", text |-> <<>>]

ValueError(msg, part, operation, text) ==
    [msg |-> msg, part |-> part, operation |-> operation, text |-> text]

ERR_FIELD_COUNT == "Cron expression must contain 5 fields"
ERR_INVALID_OPERATION == "Invalid operation"
ERR_INVALID_VALUE == "Invalid value provided for field type"
ERR_STEP_BETWEEN == "the value must be between MIN_VALUE + 1 and MAX_VALUE"
ERR_ORDER == "the lower value must be smaller or equal to the upper value"
ERR_LOWER_BETWEEN == "the lower value must be between"
ERR_UPPER_BETWEEN == "the upper value must be between"
ERR_BETWEEN == "the value must be between"
\* raised by the interpreter, not by a raise statement of the module
ERR_INT_LITERAL == "invalid literal for int() with base 10"
ERR_UNPACK_FEW == "not enough values to unpack"
ERR_UNPACK_MANY == "too many values to unpack"
ERR_RANGE_ZERO == "range() arg 3 must not be zero"

(* ------------------------------------------------------------------ *)
(* detect_operation                                                     *)
(* ------------------------------------------------------------------ *)

\* the classifier with the hyphen test before the comma test
detect_operation_range_first(field) ==
    IF StartsWith(field, <<"*">>) /\ ~StartsWith(field, <<"*", "/">>)
    THEN [error |-> NoError, operation |-> "all_items"]
    ELSE IF StartsWith(field, <<"*", "/">>)
    THEN [error |-> NoError, operation |-> "wild_card_with_step_value"]
    ELSE IF Contains(field, "-")
    THEN [error |-> NoError, operation |-> "range"]
    ELSE IF Contains(field, ",")
    THEN [error |-> NoError, operation |-> "list"]
    ELSE IF IsDigit(field)
    THEN [error |-> NoError, operation |-> "single_value"]
    ELSE [error |-> ValueError(ERR_INVALID_OPERATION, "", "", field),
          operation |-> ""]

detect_operation(field) ==
    IF StartsWith(field, <<"*">>) /\ ~StartsWith(field, <<"*", "/">>)
    THEN [error |-> NoError, operation |-> "all_items"]
    ELSE IF StartsWith(field, <<"*", "/">>)
    THEN [error |-> NoError, operation |-> "wild_card_with_step_value"]
    ELSE IF Contains(field, ",")
    THEN [error |-> NoError, operation |-> "list"]
    ELSE IF Contains(field, "-")
    THEN [error |-> NoError, operation |-> "range"]
    ELSE IF IsDigit(field)
    THEN [error |-> NoError, operation |-> "single_value"]
    ELSE [error |-> ValueError(ERR_INVALID_OPERATION, "", "", field),
          operation |-> ""]

(* ------------------------------------------------------------------ *)
(* validate_field: NoError when it returns, the ValueError otherwise     *)
(* ------------------------------------------------------------------ *)

\* the branch for wild_card_with_step_value
validate_step(cron_part_type, operation, value) ==
    LET v == ParseInt(value)
    IN  IF ~v.ok THEN ValueError(ERR_INT_LITERAL, "", "", value)
        ELSE IF ~(v.n >= MIN_VALUE[cron_part_type] /\ v.n <= MAX_VALUE[cron_part_type])
        THEN ValueError(ERR_STEP_BETWEEN, cron_part_type, operation, <<>>)
        ELSE NoError

\* lower_bound, upper_bound = map(int, value.split("-")): the map is
\* consumed lazily by the unpacking, so a token is converted only when the
\* unpacking asks for it, and a third token is converted before the
\* unpacking complains about it
UnpackBounds(value) ==
    LET tokens == SplitOn(value, "-")
        first == ParseInt(tokens[1])
    IN  IF ~first.ok
        THEN [error |-> ValueError(ERR_INT_LITERAL, "", "", tokens[1]),
              lower_bound |-> 0, upper_bound |-> 0]
        ELSE IF Len(tokens) = 1
        THEN [error |-> ValueError(ERR_UNPACK_FEW, "", "", <<>>),
              lower_bound |-> 0, upper_bound |-> 0]
        ELSE IF ~ParseInt(tokens[2]).ok
        THEN [error |-> ValueError(ERR_INT_LITERAL, "", "", tokens[2]),
              lower_bound |-> 0, upper_bound |-> 0]
        ELSE IF Len(tokens) > 2 /\ ~ParseInt(tokens[3]).ok
        THEN [error |-> ValueError(ERR_INT_LITERAL, "", "", tokens[3]),
              lower_bound |-> 0, upper_bound |-> 0]
        ELSE IF Len(tokens) > 2
        THEN [error |-> ValueError(ERR_UNPACK_MANY, "", "", <<>>),
              lower_bound |-> 0, upper_bound |-> 0]
        ELSE [error |-> NoError,
              lower_bound |-> first.n, upper_bound |-> ParseInt(tokens[2]).n]

\* the range branch with the two bounds checks ahead of the order check
validate_range_bounds_first(cron_part_type, operation, value) ==
    IF StartsWith(value, <<"-">>) \/ EndsWith(value, <<"-">>)
    THEN ValueError(ERR_INVALID_VALUE, cron_part_type, operation, <<>>)
    ELSE LET b == UnpackBounds(value)
         IN  IF b.error # NoError THEN b.error
             ELSE IF ~(b.lower_bound >= MIN_VALUE[cron_part_type]
                       /\ b.lower_bound <= MAX_VALUE[cron_part_type])
             THEN ValueError(ERR_LOWER_BETWEEN, cron_part_type, operation, <<>>)
             ELSE IF ~(b.upper_bound >= MIN_VALUE[cron_part_type]
                       /\ b.upper_bound <= MAX_VALUE[cron_part_type])
             THEN ValueError(ERR_UPPER_BETWEEN, cron_part_type, operation, <<>>)
             ELSE IF b.lower_bound > b.upper_bound
             THEN ValueError(ERR_ORDER, cron_part_type, operation, <<>>)
             ELSE NoError

\* the branch for range
validate_range(cron_part_type, operation, value) ==
    IF StartsWith(value, <<"-">>) \/ EndsWith(value, <<"-">>)
    THEN ValueError(ERR_INVALID_VALUE, cron_part_type, operation, <<>>)
    ELSE LET b == UnpackBounds(value)
         IN  IF b.error # NoError THEN b.error
             ELSE IF b.lower_bound > b.upper_bound
             THEN ValueError(ERR_ORDER, cron_part_type, operation, <<>>)
             ELSE IF ~(b.lower_bound >= MIN_VALUE[cron_part_type]
                       /\ b.lower_bound <= MAX_VALUE[cron_part_type])
             THEN ValueError(ERR_LOWER_BETWEEN, cron_part_type, operation, <<>>)
             ELSE IF ~(b.upper_bound >= MIN_VALUE[cron_part_type]
                       /\ b.upper_bound <= MAX_VALUE[cron_part_type])
             THEN ValueError(ERR_UPPER_BETWEEN, cron_part_type, operation, <<>>)
             ELSE NoError

\* the list branch with the upper limit left unchecked
validate_list_no_upper(cron_part_type, operation, value) ==
    LET tokens == SplitOn(value, ",")
        bad == {k \in 1..Len(tokens) : ~ParseInt(tokens[k]).ok}
    IN  IF bad # {}
        THEN ValueError(ERR_INT_LITERAL, "", "",
                        tokens[CHOOSE k \in bad : \A h \in bad : k <= h])
        ELSE IF \E k \in 1..Len(tokens) :
                    ~(ParseInt(tokens[k]).n >= MIN_VALUE[cron_part_type])
        THEN ValueError(ERR_BETWEEN, cron_part_type, operation, <<>>)
        ELSE NoError

\* the branch for list: the comprehension converts every token in order
\* (the first one int() rejects raises), then any collected offender raises
validate_list(cron_part_type, operation, value) ==
    LET tokens == SplitOn(value, ",")
        bad == {k \in 1..Len(tokens) : ~ParseInt(tokens[k]).ok}
    IN  IF bad # {}
        THEN ValueError(ERR_INT_LITERAL, "", "",
                        tokens[CHOOSE k \in bad : \A h \in bad : k <= h])
        ELSE IF \E k \in 1..Len(tokens) :
                    ~(ParseInt(tokens[k]).n >= MIN_VALUE[cron_part_type]
                      /\ ParseInt(tokens[k]).n <= MAX_VALUE[cron_part_type])
        THEN ValueError(ERR_BETWEEN, cron_part_type, operation, <<>>)
        ELSE NoError

\* the branch for single_value
validate_single_value(cron_part_type, operation, value) ==
    LET v == ParseInt(value)
    IN  IF ~v.ok THEN ValueError(ERR_INT_LITERAL, "", "", value)
        ELSE IF ~(v.n >= MIN_VALUE[cron_part_type] /\ v.n <= MAX_VALUE[cron_part_type])
        THEN ValueError(ERR_BETWEEN, cron_part_type, operation, <<>>)
        ELSE NoError

validate_field(cron_part_type, operation, value) ==
    IF operation = "wild_card_with_step_value"
    THEN validate_step(cron_part_type, operation, value)
    ELSE IF operation = "range"
    THEN validate_range(cron_part_type, operation, value)
    ELSE IF operation = "list"
    THEN validate_list(cron_part_type, operation, value)
    ELSE IF operation = "single_value"
    THEN validate_single_value(cron_part_type, operation, value)
    ELSE NoError

(* ------------------------------------------------------------------ *)
(* generate_values: the list it returns, or the ValueError it raises     *)
(* ------------------------------------------------------------------ *)

\* the branch for all_items
generate_all_items(cron_part_type) ==
    [error |-> NoError,
     values |-> RangeList(MIN_VALUE[cron_part_type], MAX_VALUE[cron_part_type] + 1, 1)]

\* the step branch with the range started at zero instead of the minimum
generate_step_from_zero(cron_part_type, value) ==
    LET v == ParseInt(value)
    IN  IF ~v.ok
        THEN [error |-> ValueError(ERR_INT_LITERAL, "", "", value), values |-> <<>>]
        ELSE IF v.n = 0
        THEN [error |-> ValueError(ERR_RANGE_ZERO, "", "", <<>>), values |-> <<>>]
        ELSE [error |-> NoError,
              values |-> RangeList(0, MAX_VALUE[cron_part_type] + 1, v.n)]

\* the branch for wild_card_with_step_value
generate_step(cron_part_type, value) ==
    LET v == ParseInt(value)
    IN  IF ~v.ok
        THEN [error |-> ValueError(ERR_INT_LITERAL, "", "", value), values |-> <<>>]
        ELSE IF v.n = 0
        THEN [error |-> ValueError(ERR_RANGE_ZERO, "", "", <<>>), values |-> <<>>]
        ELSE [error |-> NoError,
              values |-> RangeList(MIN_VALUE[cron_part_type],
                                   MAX_VALUE[cron_part_type] + 1, v.n)]

\* the branch for range
generate_range(value) ==
    LET b == UnpackBounds(value)
    IN  IF b.error # NoError THEN [error |-> b.error, values |-> <<>>]
        ELSE [error |-> NoError,
              values |-> RangeList(b.lower_bound, b.upper_bound + 1, 1)]

\* a sequence without the repetitions of its elements (first occurrence kept)
RECURSIVE Dedup(_)
Dedup(q) ==
    IF Len(q) = 0 THEN q
    ELSE LET front == SubSeq(q, 1, Len(q) - 1)
             last == q[Len(q)]
         IN  IF \E k \in 1..Len(front) : front[k] = last
             THEN Dedup(front)
             ELSE Append(Dedup(front), last)

\* the list branch with repeated values dropped
generate_list_dedup(value) ==
    LET tokens == SplitOn(value, ",")
        bad == {k \in 1..Len(tokens) : ~ParseInt(tokens[k]).ok}
    IN  IF bad # {}
        THEN [error |-> ValueError(ERR_INT_LITERAL, "", "",
                                   tokens[CHOOSE k \in bad : \A h \in bad : k <= h]),
              values |-> <<>>]
        ELSE [error |-> NoError,
              values |-> Dedup([k \in 1..Len(tokens) |-> ParseInt(tokens[k]).n])]

\* the branch for list
generate_list(value) ==
    LET tokens == SplitOn(value, ",")
        bad == {k \in 1..Len(tokens) : ~ParseInt(tokens[k]).ok}
    IN  IF bad # {}
        THEN [error |-> ValueError(ERR_INT_LITERAL, "", "",
                                   tokens[CHOOSE k \in bad : \A h \in bad : k <= h]),
              values |-> <<>>]
        ELSE [error |-> NoError,
              values |-> [k \in 1..Len(tokens) |-> ParseInt(tokens[k]).n]]

\* the branch for single_value
generate_single_value(value) ==
    LET v == ParseInt(value)
    IN  IF ~v.ok
        THEN [error |-> ValueError(ERR_INT_LITERAL, "", "", value), values |-> <<>>]
        ELSE [error |-> NoError, values |-> <<v.n>>]

generate_values(cron_part_type, operation, value) ==
    IF operation = "all_items" THEN generate_all_items(cron_part_type)
    ELSE IF operation = "wild_card_with_step_value"
    THEN generate_step(cron_part_type, value)
    ELSE IF operation = "range" THEN generate_range(value)
    ELSE IF operation = "list" THEN generate_list(value)
    ELSE generate_single_value(value)

(* ------------------------------------------------------------------ *)
(* The report line of process_cron_expression                           *)
(* ------------------------------------------------------------------ *)

\* the characters of a CRON_TIME_PART name
PartText(part) ==
    CASE part = "minute" -> <<"m", "i", "n", "u", "t", "e">>
      [] part = "hour" -> <<"h", "o", "u", "r">>
      [] part = "day_of_month" ->
            <<"d", "a", "y", "_", "o", "f", "_", "m", "o", "n", "t", "h">>
      [] part = "month" -> <<"m", "o", "n", "t", "h">>
      [] part = "day_of_week" ->
            <<"d", "a", "y", "_", "o", "f", "_", "w", "e", "e", "k">>

\* format(text, "<width"): padded on the right with spaces, never cut
LeftJustify(text, width) ==
    IF Len(text) >= width THEN text
    ELSE text \o [k \in 1..(width - Len(text)) |-> " "]

\* the report line with the values joined by commas
FormatLineCommas(part, val) ==
    LeftJustify(PartText(part), NAME_WIDTH)
        \o Join([k \in 1..Len(val) |-> Str(val[k])], <<",">>)

\* f"{part:<14}{' '.join(map(str, val))}"
FormatLine(part, val) ==
    LeftJustify(PartText(part), NAME_WIDTH)
        \o Join([k \in 1..Len(val) |-> Str(val[k])], <<" ">>)

\* the payload process_cron_expression hands to validate_field and
\* generate_values: cron_field[2:] for a step, nothing for all_items,
\* the whole field otherwise
Payload(operation, cron_field) ==
    IF operation = "all_items" THEN <<>>
    ELSE IF operation = "wild_card_with_step_value" THEN SliceFrom(cron_field, 2)
    ELSE cron_field

(* ------------------------------------------------------------------ *)
(* State                                                                *)
(* ------------------------------------------------------------------ *)

VARIABLES
    pc,          \* position of the caller
    expression,  \* argument of process_cron_expression
    split_cron,  \* expression.split()
    i,           \* loop index of process_cron_expression
    part,        \* CRON_PART[i], or the cron_part_type of a direct call
    cron_field,  \* split_cron[i], or the text of a direct call
    operation,   \* the operation detected or handed in
    value,       \* the payload handed to validate_field and generate_values
    val,         \* the list generate_values returned
    result,      \* the report lines appended so far
    ret,         \* what process_cron_expression returned
    error,       \* the ValueError that left the call, NoError if none
    vals,        \* history: the val of every field expanded so far
    log          \* history: the calls made, in order, with their outcome

vars == <<pc, expression, split_cron, i, part, cron_field, operation, value,
          val, result, ret, error, vals, log>>

Call(fn, idx, p, op, v, raised) ==
    [fn |-> fn, i |-> idx, part |-> p, operation |-> op, value |-> v,
     raised |-> raised]

(* ------------------------------------------------------------------ *)
(* Inputs                                                               *)
(* ------------------------------------------------------------------ *)

\* the characters field texts are drawn from
Alphabet == {"*", "/", ",", "-", "0", "1", "8"}

FieldTexts == UNION {[1..n -> Alphabet] : n \in 0..MaxLen}

\* the fields expressions are built from
FieldPool ==
    { <<"*">>, <<"*", "/", "2">>, <<"*", "/", "0">>, <<"7", ",", "1">>,
      <<"0">>, <<"x">> }

\* how the fields of an expression are laid out: the text before the first
\* field, between two fields, and after the last
Layouts ==
    { [lead |-> <<>>, sep |-> <<" ">>, trail |-> <<>>],
      [lead |-> <<" ">>, sep |-> <<"\t", " ">>, trail |-> <<"\n">>] }

Expressions ==
    { lay.lead \o Join(fields, lay.sep) \o lay.trail :
        fields \in UNION {[1..n -> FieldPool] : n \in 0..MaxTokens},
        lay \in Layouts }

(* ------------------------------------------------------------------ *)
(* Single-field specification: detect_operation, validate_field and     *)
(* generate_values called on one field text, either chained as          *)
(* process_cron_expression chains them or validate_field called with    *)
(* any operation                                                        *)
(* ------------------------------------------------------------------ *)

FieldInit ==
    /\ pc = "start"
    /\ part \in CRON_TIME_PART
    /\ cron_field \in FieldTexts
    /\ expression = <<>>
    /\ split_cron = <<>>
    /\ i = 0
    /\ operation = ""
    /\ value = <<>>
    /\ val = <<>>
    /\ result = <<>>
    /\ ret = <<>>
    /\ error = NoError
    /\ vals = <<>>
    /\ log = <<>>

CallDetect ==
    /\ pc = "start"
    /\ LET d == detect_operation(cron_field)
       IN  /\ operation' = d.operation
           /\ error' = d.error
           /\ value' = Payload(d.operation, cron_field)
           /\ pc' = IF d.error # NoError THEN "raised" ELSE "classified"
           /\ log' = Append(log, Call("detect_operation", i, "", "", cron_field,
                                      d.error # NoError))
    /\ UNCHANGED <<expression, split_cron, i, part, cron_field, val, result,
                   ret, vals>>

CallValidate ==
    /\ pc = "classified"
    /\ operation # "all_items"
    /\ LET e == validate_field(part, operation, value)
       IN  /\ error' = e
           /\ pc' = IF e # NoError THEN "raised" ELSE "validated"
           /\ log' = Append(log, Call("validate_field", i, part, operation, value,
                                      e # NoError))
    /\ UNCHANGED <<expression, split_cron, i, part, cron_field, operation, value,
                   val, result, ret, vals>>

CallValidateDirect(op) ==
    /\ pc = "start"
    /\ LET e == validate_field(part, op, cron_field)
       IN  /\ operation' = op
           /\ value' = cron_field
           /\ error' = e
           /\ pc' = IF e # NoError THEN "raised" ELSE "validated"
           /\ log' = Append(log, Call("validate_field", i, part, op, cron_field,
                                      e # NoError))
    /\ UNCHANGED <<expression, split_cron, i, part, cron_field, val, result,
                   ret, vals>>

CallGenerate ==
    /\ \/ pc = "classified" /\ operation = "all_items"
       \/ pc = "validated"
    /\ LET g == generate_values(part, operation, value)
       IN  /\ error' = g.error
           /\ val' = g.values
           /\ pc' = IF g.error # NoError THEN "raised" ELSE "generated"
           /\ log' = Append(log, Call("generate_values", i, part, operation, value,
                                      g.error # NoError))
    /\ UNCHANGED <<expression, split_cron, i, part, cron_field, operation, value,
                   result, ret, vals>>

FieldNext ==
    \/ CallDetect
    \/ CallValidate
    \/ \E op \in CRON_OPERATIONS : CallValidateDirect(op)
    \/ CallGenerate

FieldSpec == FieldInit /\ [][FieldNext]_vars

(* ------------------------------------------------------------------ *)
(* process_cron_expression                                              *)
(* ------------------------------------------------------------------ *)

Init ==
    /\ pc = "called"
    /\ expression \in Expressions
    /\ split_cron = <<>>
    /\ i = 0
    /\ part = ""
    /\ cron_field = <<>>
    /\ operation = ""
    /\ value = <<>>
    /\ val = <<>>
    /\ result = <<>>
    /\ ret = <<>>
    /\ error = NoError
    /\ vals = <<>>
    /\ log = <<>>

\* the field-count check accepting any expression of at least five fields
SplitAtLeast ==
    /\ pc = "called"
    /\ split_cron' = SplitWhitespace(expression)
    /\ IF Len(split_cron') < FIELD_COUNT
       THEN /\ error' = ValueError(ERR_FIELD_COUNT, "", "", <<>>)
            /\ pc' = "raised"
       ELSE /\ error' = error
            /\ pc' = "loop"
    /\ UNCHANGED <<expression, i, part, cron_field, operation, value, val,
                   result, ret, vals, log>>

\* split_cron = expression.split() and the field-count check
Split ==
    /\ pc = "called"
    /\ split_cron' = SplitWhitespace(expression)
    /\ IF Len(split_cron') # FIELD_COUNT
       THEN /\ error' = ValueError(ERR_FIELD_COUNT, "", "", <<>>)
            /\ pc' = "raised"
       ELSE /\ error' = error
            /\ pc' = "loop"
    /\ UNCHANGED <<expression, i, part, cron_field, operation, value, val,
                   result, ret, vals, log>>

\* the head of a loop iteration: part, cron_field and detect_operation
Detect ==
    /\ pc = "loop"
    /\ i < Len(split_cron)
    /\ part' = CRON_PART[i]
    /\ cron_field' = split_cron[i + 1]
    /\ LET d == detect_operation(cron_field')
       IN  /\ operation' = d.operation
           /\ error' = d.error
           /\ value' = Payload(d.operation, cron_field')
           /\ pc' = IF d.error # NoError THEN "raised" ELSE "classified"
           /\ log' = Append(log, Call("detect_operation", i, "", "", cron_field',
                                      d.error # NoError))
    /\ UNCHANGED <<expression, split_cron, i, val, result, ret, vals>>

\* validate_field with a failure swallowed: the loop carries on
ValidateLenient ==
    /\ pc = "classified"
    /\ operation # "all_items"
    /\ LET e == validate_field(part, operation, value)
       IN  /\ error' = error
           /\ pc' = IF e # NoError THEN "loop" ELSE "validated"
           /\ i' = IF e # NoError THEN i + 1 ELSE i
           /\ log' = Append(log, Call("validate_field", i, part, operation, value,
                                      e # NoError))
    /\ UNCHANGED <<expression, split_cron, part, cron_field, operation, value,
                   val, result, ret, vals>>

\* the validate_field call of the step branch and of the else branch
Validate ==
    /\ pc = "classified"
    /\ operation # "all_items"
    /\ LET e == validate_field(part, operation, value)
       IN  /\ error' = e
           /\ pc' = IF e # NoError THEN "raised" ELSE "validated"
           /\ log' = Append(log, Call("validate_field", i, part, operation, value,
                                      e # NoError))
    /\ UNCHANGED <<expression, split_cron, i, part, cron_field, operation, value,
                   val, result, ret, vals>>

\* what Generate does once it is enabled
GenerateBody ==
    LET g == generate_values(part, operation, value)
    IN  /\ error' = g.error
        /\ log' = Append(log, Call("generate_values", i, part, operation, value,
                                   g.error # NoError))
        /\ IF g.error # NoError
           THEN /\ pc' = "raised"
                /\ UNCHANGED <<val, result, vals, i>>
           ELSE /\ pc' = "loop"
                /\ val' = g.values
                /\ vals' = Append(vals, g.values)
                /\ result' = Append(result, FormatLine(part, g.values))
                /\ i' = i + 1
        /\ UNCHANGED <<expression, split_cron, part, cron_field, operation,
                       value, ret>>

\* generate_values reached whether or not validate_field ran
GenerateUnguarded ==
    /\ pc \in {"classified", "validated"}
    /\ GenerateBody

\* the generate_values call of the three branches, and the append that
\* ends the iteration
Generate ==
    /\ \/ pc = "classified" /\ operation = "all_items"
       \/ pc = "validated"
    /\ GenerateBody

\* return "\n".join(result)
Return ==
    /\ pc = "loop"
    /\ ~(i < Len(split_cron))
    /\ ret' = Join(result, <<"\n">>)
    /\ pc' = "returned"
    /\ UNCHANGED <<expression, split_cron, i, part, cron_field, operation, value,
                   val, result, error, vals, log>>

Next ==
    \/ Split
    \/ Detect
    \/ Validate
    \/ Generate
    \/ Return

Spec == Init /\ [][Next]_vars

(* ------------------------------------------------------------------ *)
(* Properties of the single-field specification (FieldSpec)             *)
(* ------------------------------------------------------------------ *)

\* the field went through detect_operation first, as in the orchestrator
Chained == Len(log) >= 1 /\ log[1].fn = "detect_operation"

\* C1: whenever generate_values returns at the end of the chain
\* detect_operation -> validate_field (skipped for all_items) ->
\* generate_values, every value produced lies within
\* MIN_VALUE[part]..MAX_VALUE[part], whatever the operation
C1_ValuesWithinBounds ==
    (pc = "generated")
        => \A k \in 1..Len(val) :
               MIN_VALUE[part] <= val[k] /\ val[k] <= MAX_VALUE[part]

C1_Witness ==
    /\ pc = "generated"
    /\ Chained
    /\ part = "month"
    /\ operation = "range"
    /\ val = <<8, 9, 10, 11>>

\* the outcome the priority order of the grammar gives a field text
ExpectedOperation(f) ==
    LET star == Len(f) >= 1 /\ f[1] = "*"
        slash == Len(f) >= 2 /\ f[2] = "/"
    IN  IF star /\ ~slash THEN "all_items"
        ELSE IF star /\ slash THEN "wild_card_with_step_value"
        ELSE IF \E k \in 1..Len(f) : f[k] = "," THEN "list"
        ELSE IF \E k \in 1..Len(f) : f[k] = "-" THEN "range"
        ELSE IF Len(f) >= 1 /\ \A k \in 1..Len(f) : f[k] \in Digits
        THEN "single_value"
        ELSE "InvalidField"

\* C4: detect_operation is total and first-match-wins: on every non-empty
\* text it either returns exactly one of the five operations or raises
\* "Invalid operation", the outcome is the first production of the priority
\* order that matches, and a text not starting with '*' that holds both ','
\* and '-' is a list, never a range
C4_ClassifierPriority ==
    (Chained /\ Len(cron_field) > 0)
        => /\ \/ ~log[1].raised /\ operation \in CRON_OPERATIONS
              \/ /\ log[1].raised
                 /\ operation \notin CRON_OPERATIONS
                 /\ pc = "raised"
                 /\ error = ValueError(ERR_INVALID_OPERATION, "", "", cron_field)
           /\ log[1].raised <=> ExpectedOperation(cron_field) = "InvalidField"
           /\ ~log[1].raised => operation = ExpectedOperation(cron_field)
           /\ (/\ cron_field[1] # "*"
               /\ Contains(cron_field, ",")
               /\ Contains(cron_field, "-")) => operation = "list"

C4_Witness ==
    /\ Chained
    /\ cron_field = <<"1", "-", "8", ",">>
    /\ operation = "list"
    /\ ~log[1].raised

\* value is A-B with A and B strings of decimal digits and A > B
IsDescendingRange(v) ==
    \E j \in 2..(Len(v) - 1) :
        /\ v[j] = "-"
        /\ IsDigit(SubSeq(v, 1, j - 1))
        /\ IsDigit(SubSeq(v, j + 1, Len(v)))
        /\ DigitsValue(SubSeq(v, 1, j - 1)) > DigitsValue(SubSeq(v, j + 1, Len(v)))

\* C6: validate_field on a range payload A-B with A > B raises the
\* order-violation error for every field kind, also when A or B is out of
\* the kind's bounds, and the range is never expanded
C6_OrderViolation ==
    \A k \in 1..Len(log) :
        (/\ log[k].fn = "validate_field"
         /\ log[k].operation = "range"
         /\ IsDescendingRange(log[k].value))
            => /\ log[k].raised
               /\ k = Len(log)
               /\ pc = "raised"
               /\ error = ValueError(ERR_ORDER, part, "range", <<>>)
               /\ val = <<>>

C6_Witness ==
    /\ pc = "raised"
    /\ part = "day_of_week"
    /\ operation = "range"
    /\ value = <<"8", "-", "0">>
    /\ error.msg = ERR_ORDER

RECURSIVE CountCommas(_)
CountCommas(s) ==
    IF Len(s) = 0 THEN 0
    ELSE (IF s[1] = "," THEN 1 ELSE 0) + CountCommas(Tail(s))

\* C8: the expansion of a list whose tokens are all in-bounds integers is
\* the sequence of those integers in payload order, one per token: not
\* re-sorted, duplicates kept
C8_ListOrderPreserved ==
    (pc = "generated" /\ operation = "list")
        => LET tokens == SplitOn(value, ",")
           IN  /\ Len(val) = CountCommas(value) + 1
               /\ Len(val) = Len(tokens)
               /\ \A k \in 1..Len(val) :
                      /\ ParseInt(tokens[k]).ok
                      /\ val[k] = ParseInt(tokens[k]).n
               /\ (\A k \in 1..Len(tokens) : Str(val[k]) = tokens[k])
                      => Join([k \in 1..Len(val) |-> Str(val[k])], <<",">>) = value

C8_Witness ==
    /\ pc = "generated"
    /\ Chained
    /\ cron_field = <<"8", ",", "1", "1">>
    /\ val = <<8, 11>>

\* C9: generate_values never fails on what validate_field accepted (or on
\* all_items): every generate_values call reached returns a list
C9_ExpanderTotal ==
    \A k \in 1..Len(log) : log[k].fn = "generate_values" => ~log[k].raised

(* ------------------------------------------------------------------ *)
(* Properties of process_cron_expression (Spec)                         *)
(* ------------------------------------------------------------------ *)

\* the error one field ends with when it is classified, validated and
\* expanded as position k of an expression; NoError when it is valid
FieldError(k, f) ==
    LET d == detect_operation(f)
        p == CRON_PART[k]
        v == Payload(d.operation, f)
    IN  IF d.error # NoError THEN d.error
        ELSE IF d.operation # "all_items" /\ validate_field(p, d.operation, v) # NoError
        THEN validate_field(p, d.operation, v)
        ELSE generate_values(p, d.operation, v).error

\* the positions of the invalid fields of a five-field expression
InvalidPositions ==
    {k \in 0..(Len(split_cron) - 1) : FieldError(k, split_cron[k + 1]) # NoError}

\* C2: process_cron_expression is fail-fast with no partial report: once the
\* fields are split, no call is ever made for a field after the
\* lowest-position invalid one; a failure is the error of that field, raised
\* at its position, and nothing is returned (the lines of the earlier valid
\* fields are dropped); a report is returned only when no field is invalid
C2_FailFast ==
    (pc # "called" /\ Len(split_cron) = FIELD_COUNT)
        => /\ \A m \in InvalidPositions : \A k \in 1..Len(log) : log[k].i <= m
           /\ (pc = "raised")
                  => /\ i \in InvalidPositions
                     /\ \A m \in InvalidPositions : i <= m
                     /\ error = FieldError(i, split_cron[i + 1])
                     /\ Len(result) = i
                     /\ ret = <<>>
           /\ (pc = "returned") => InvalidPositions = {}
           /\ (pc # "returned") => ret = <<>>
           /\ (InvalidPositions # {}) => ret = <<>>

C2_Witness ==
    /\ pc = "raised"
    /\ i = 2
    /\ Len(result) = 2
    /\ split_cron[3] = <<"0">>
    /\ split_cron[4] = <<"x">>
    /\ error.msg = ERR_BETWEEN
    /\ error.part = "day_of_month"
    /\ ret = <<>>

\* the number of maximal runs of non-whitespace characters of a text
TokenCount(s) ==
    Cardinality({j \in 1..Len(s) :
                    /\ s[j] \notin Whitespace
                    /\ (j = 1 \/ s[j - 1] \in Whitespace)})

\* C3: process_cron_expression fails with "Cron expression must contain 5
\* fields" exactly when the expression does not hold five
\* whitespace-separated tokens, and it does so before any field is
\* classified, whatever the tokens are
C3_WrongFieldCount ==
    (pc # "called")
        => /\ (pc = "raised" /\ error.msg = ERR_FIELD_COUNT)
                  <=> TokenCount(expression) # FIELD_COUNT
           /\ (TokenCount(expression) # FIELD_COUNT)
                  => /\ log = <<>>
                     /\ error = ValueError(ERR_FIELD_COUNT, "", "", <<>>)
                     /\ ret = <<>>

C3_Witness ==
    /\ pc = "raised"
    /\ error.msg = ERR_FIELD_COUNT
    /\ Len(split_cron) = 6
    /\ split_cron[2] = <<"x">>
    /\ expression[1] \in Whitespace
    /\ log = <<>>

\* a canonical decimal numeral: digits only, no leading zero but "0" itself
IsNumeral(t) == IsDigit(t) /\ (Len(t) > 1 => t[1] # "0")

\* C5: a returned report is five lines joined by newlines with no trailing
\* newline; line k is the name of the k-th field kind, in the fixed order,
\* padded with spaces to 14 columns, followed by the integers expanded for
\* that field in the order produced, separated by single spaces
C5_ReportFormat ==
    (pc = "returned")
        => LET lines == SplitOn(ret, "\n")
           IN  /\ Len(lines) = 5
               /\ Len(vals) = 5
               /\ ret[Len(ret)] # "\n"
               /\ \A k \in 1..5 :
                      LET name == PartText(CRON_PART[k - 1])
                          line == lines[k]
                          tokens == SplitOn(SubSeq(line, 15, Len(line)), " ")
                      IN  /\ Len(line) > 14
                          /\ \A j \in 1..14 :
                                 line[j] = IF j <= Len(name) THEN name[j] ELSE " "
                          /\ Len(tokens) = Len(vals[k])
                          /\ \A j \in 1..Len(tokens) :
                                 /\ IsNumeral(tokens[j])
                                 /\ DigitsValue(tokens[j]) = vals[k][j]

C5_Witness ==
    /\ pc = "returned"
    /\ split_cron = << <<"*", "/", "2">>, <<"0">>, <<"7", ",", "1">>, <<"*">>,
                       <<"*", "/", "2">> >>
    /\ vals[3] = <<7, 1>>
    /\ vals[5] = <<1, 3, 5, 7>>

\* C10: every generate_values call for a step, range, list or single_value
\* field comes right after a validate_field call on the same field, with
\* the same payload (the text after "*/" for a step, the whole field
\* otherwise), that returned; only all_items fields are expanded straight
\* after classification, and nothing follows a call that raised
C10_ValidateBeforeGenerate ==
    \A k \in 1..Len(log) :
        /\ (log[k].raised) => k = Len(log)
        /\ (log[k].fn = "generate_values")
               => /\ k > 1
                  /\ log[k].part = CRON_PART[log[k].i]
                  /\ IF log[k].operation = "all_items"
                     THEN /\ log[k - 1].fn = "detect_operation"
                          /\ log[k - 1].i = log[k].i
                     ELSE /\ log[k - 1] = [log[k] EXCEPT !.fn = "validate_field",
                                                          !.raised = FALSE]
                          /\ log[k].value =
                                 IF log[k].operation = "wild_card_with_step_value"
                                 THEN SubSeq(split_cron[log[k].i + 1], 3,
                                             Len(split_cron[log[k].i + 1]))
                                 ELSE split_cron[log[k].i + 1]
        /\ (log[k].fn = "validate_field" /\ ~log[k].raised /\ k < Len(log))
               => log[k + 1].fn = "generate_values"

C10_Witness ==
    /\ Len(log) = 3
    /\ log[2] = Call("validate_field", 0, "minute", "wild_card_with_step_value",
                     <<"2">>, FALSE)
    /\ log[3].fn = "generate_values"
    /\ ~log[3].raised

====
